---- MODULE Spec2Model ----
(***************************************************************************)
(* Model of src/gsc_api/api.py: class GoogleSeachConsoleAPI.               *)
(*                                                                         *)
(* Strings are sequences of one-character strings, dates are day numbers   *)
(* counted from 1970-01-01 and are rendered to 'YYYY-MM-DD' digit by       *)
(* digit, the remote Search Console service is the environment.            *)
(***************************************************************************)
EXTENDS Integers, Sequences, FiniteSets, TLC

VARIABLES
    domain,        \* argument of __init__
    default_site,  \* self.default_site
    pc,            \* position of the caller / of get_search_analytics_all
    row_limit,     \* argument row_limit of get_search_analytics_all
    max_export,    \* argument max_export of get_search_analytics_all
    start_row,     \* local start_row
    data,          \* local data (the accumulator)
    inflight,      \* body of the page request being executed
    response,      \* what execute() produced for the request in flight
    result,        \* value returned by get_search_analytics_all
    error,         \* exception that left get_search_analytics_all
    requests,      \* history: bodies of the page requests issued, in order
    pages,         \* history: the 'rows' of every response that had them
    dropped,       \* history: a request was issued that requests has no room for
    store,         \* rows the remote service holds for the query
    svc,           \* how the remote service answers
    today          \* the current date (day number)

vars == <<domain, default_site, pc, row_limit, max_export, start_row, data,
          inflight, response, result, error, requests, pages, dropped, store,
          svc, today>>

----------------------------------------------------------------------------
(* Bounds of the model *)

MaxChunks == 3      \* a domain string is made of at most this many chunks
MaxStore == 5       \* the service holds at most this many rows
MaxRowLimit == 2    \* row_limit ranges over 1..MaxRowLimit
MaxExport == 3      \* max_export ranges over None, 0..MaxExport
MaxReq == 5         \* the histories record this many page requests

----------------------------------------------------------------------------
(* Python values *)

None == -1

\* truth value of max_export in `if max_export and ...`
Truthy(x) == x # None /\ x # 0

Min(a, b) == IF a < b THEN a ELSE b

----------------------------------------------------------------------------
(* _format_domain: re.sub(r'(http(s)?:\/\/)', r'sc-domain:', domain) *)

HTTP == <<"h", "t", "t", "p", ":", "/", "/">>
HTTPS == <<"h", "t", "t", "p", "s", ":", "/", "/">>
replacement == <<"s", "c", "-", "d", "o", "m", "a", "i", "n", ":">>

\* does the literal lit occur in s at position i (1-based)
LitAt(s, i, lit) ==
    /\ i + Len(lit) - 1 <= Len(s)
    /\ \A k \in 1..Len(lit) : s[i + k - 1] = lit[k]

\* length of the match of http(s)?:\/\/ at position i, 0 when there is none;
\* the optional group is greedy, so the 's' is tried first
MatchLen(s, i) ==
    IF LitAt(s, i, HTTPS) THEN Len(HTTPS)
    ELSE IF LitAt(s, i, HTTP) THEN Len(HTTP)
    ELSE 0

\* re.sub scans left to right and replaces every non-overlapping match
RECURSIVE ReSub(_, _)
ReSub(s, i) ==
    IF i > Len(s) THEN <<>>
    ELSE IF MatchLen(s, i) > 0
         THEN replacement \o ReSub(s, i + MatchLen(s, i))
         ELSE <<s[i]>> \o ReSub(s, i + 1)

format_domain(d) == ReSub(d, 1)

----------------------------------------------------------------------------
(* Dates: datetime arithmetic, strftime('%Y-%m-%d'), strptime(_, '%Y-%m-%d') *)

DefaultDuration == 30

\* the calendar date <<year, month, day>> of a day number (proleptic Gregorian)
CivilFromDays(d) ==
    LET z == d + 719468
        era == z \div 146097
        doe == z - era * 146097
        yoe == (doe - doe \div 1460 + doe \div 36524 - doe \div 146096) \div 365
        doy == doe - (365 * yoe + yoe \div 4 - yoe \div 100)
        mp == (5 * doy + 2) \div 153
        dd == doy - (153 * mp + 2) \div 5 + 1
        mm == IF mp < 10 THEN mp + 3 ELSE mp - 9
        yy == yoe + era * 400 + (IF mm <= 2 THEN 1 ELSE 0)
    IN  <<yy, mm, dd>>

\* the day number of a calendar date
DaysFromCivil(yy, mm, dd) ==
    LET y == IF mm <= 2 THEN yy - 1 ELSE yy
        era == y \div 400
        yoe == y - era * 400
        mp == IF mm > 2 THEN mm - 3 ELSE mm + 9
        doy == (153 * mp + 2) \div 5 + dd - 1
        doe == yoe * 365 + yoe \div 4 - yoe \div 100 + doy
    IN  era * 146097 + doe - 719468

\* date.strftime('%Y-%m-%d'): zero-padded decimal digits
StrfTime(d) ==
    LET c == CivilFromDays(d)
    IN  << (c[1] \div 1000) % 10, (c[1] \div 100) % 10, (c[1] \div 10) % 10,
           c[1] % 10, "-", c[2] \div 10, c[2] % 10, "-", c[3] \div 10, c[3] % 10 >>

\* datetime.strptime(s, '%Y-%m-%d') of a well-formed string
StrpTime(s) ==
    DaysFromCivil(s[1] * 1000 + s[2] * 100 + s[3] * 10 + s[4],
                  s[6] * 10 + s[7], s[9] * 10 + s[10])

\* get_search_analytics: the request body built from the arguments;
\* end_date is NoDate (None) or a 'YYYY-MM-DD' string
NoDate == <<>>

get_search_analytics(dimensions, startRow, rowLimit, end_date, duration) ==
    LET endDay == IF end_date = NoDate THEN today ELSE StrpTime(end_date)
        startDay == endDay - duration
    IN  [ siteUrl |-> default_site,
          startDate |-> StrfTime(startDay),
          endDate |-> StrfTime(endDay),
          dimensions |-> dimensions,
          rowLimit |-> rowLimit,
          dataState |-> "FINAL",
          startRow |-> startRow ]

----------------------------------------------------------------------------
(* Inputs *)

\* chunks a domain string is assembled from
Chunks ==
    { HTTP, HTTPS, <<"a">>, <<"h", "t", "t", "p">>, <<":", "/", "/">>,
      <<"s">>, <<"s", "c", "-">> }

RECURSIVE Words(_)
Words(n) ==
    IF n = 0 THEN {<<>>}
    ELSE Words(n - 1) \cup {w \o c : w \in Words(n - 1), c \in Chunks}

\* the domain the exporter of the main specification is constructed with
SiteDomains == { HTTPS \o <<"a">> }

\* the rows the service may hold: the first n rows of a fixed listing in
\* which rows (keys and metrics, uninterpreted) repeat, next to each other
\* and apart
ListingRow(i) == IF i % 3 = 0 THEN "r2" ELSE "r1"
Stores == { [i \in 1..n |-> ListingRow(i)] : n \in 0..MaxStore }

\* the days the export may run on
FirstDay == DaysFromCivil(2024, 6, 15)
LastDay == DaysFromCivil(2024, 6, 16)

NoRequest ==
    [ siteUrl |-> <<>>, startDate |-> <<>>, endDate |-> <<>>,
      dimensions |-> <<>>, rowLimit |-> 0, dataState |-> "", startRow |-> 0 ]

NoResponse == [kind |-> "none", rows |-> <<>>]
NoResult == [returned |-> FALSE, rows |-> <<>>]

----------------------------------------------------------------------------
(* The remote service: searchanalytics().query(...).execute() *)

\* the rows the service holds at offset startRow, at most rowLimit of them
Slice(req) ==
    LET last == Min(req.startRow + req.rowLimit, Len(store))
    IN  IF req.startRow >= Len(store) THEN <<>>
        ELSE SubSeq(store, req.startRow + 1, last)

\* the responses the service may give to a request
Answers(req) ==
    IF svc = "exact"
    THEN { [kind |-> "rows", rows |-> Slice(req)] }
    ELSE { [kind |-> "rows", rows |-> SubSeq(Slice(req), 1, n)] :
               n \in 0..Len(Slice(req)) }
         \cup { [kind |-> "norows", rows |-> <<>>],
                [kind |-> "error", rows |-> <<>>] }

----------------------------------------------------------------------------
(* get_search_analytics_all *)

\* variant: go on while the last page came back non-empty
LoopCondNonEmpty ==
    IF pages = <<>> THEN TRUE ELSE Len(pages[Len(pages)]) > 0

\* variant: go on while the last page came back full
LoopCondFullPage ==
    IF pages = <<>> THEN TRUE ELSE Len(pages[Len(pages)]) = row_limit

\* the while condition
LoopCond == (start_row % row_limit = 0) \/ (start_row = 0)

\* variant: response.get('rows', []), a missing 'rows' field is an empty page
FailsOnError(resp) == resp.kind = "error"

\* execute() raised, or response['rows'] raises KeyError
Fails(resp) == resp.kind \in {"error", "norows"}

\* variant: start_row += row_limit
AdvanceByLimit(s, rows, limit) == s + limit

\* start_row += len(response['rows'])
Advance(s, rows, limit) == s + Len(rows)

\* variant: only rows not yet in the accumulator are appended
ExtendNew(d, rows) ==
    d \o SelectSeq(rows, LAMBDA r : \A i \in 1..Len(d) : d[i] # r)

\* data.extend(response['rows'])
Extend(d, rows) == d \o rows

\* variant: start_row >= max_export
CapReached(s, m) == Truthy(m) /\ s >= m

\* if max_export and start_row > max_export
CapExceeded(s, m) == Truthy(m) /\ s > m

----------------------------------------------------------------------------
(* Actions *)

\* __init__
Construct ==
    /\ pc = "new"
    /\ default_site' = format_domain(domain)
    /\ pc' = "idle"
    /\ UNCHANGED <<domain, row_limit, max_export, start_row, data, inflight,
                   response, result, error, requests, pages, dropped, store,
                   svc, today>>

\* the caller enters get_search_analytics_all(max_export, row_limit)
Call ==
    /\ pc = "idle"
    /\ \E l \in 1..MaxRowLimit, m \in {None} \cup 0..MaxExport :
          /\ row_limit' = l
          /\ max_export' = m
    /\ start_row' = 0
    /\ data' = <<>>
    /\ pc' = "loop"
    /\ UNCHANGED <<domain, default_site, inflight, response, result, error,
                   requests, pages, dropped, store, svc, today>>

\* the loop condition holds: build the page request and send it
Query ==
    /\ pc = "loop"
    /\ LoopCond
    /\ inflight' = get_search_analytics(<<"query", "page">>, start_row,
                                        row_limit, NoDate, DefaultDuration)
    /\ IF Len(requests) < MaxReq
       THEN requests' = Append(requests, inflight') /\ dropped' = dropped
       ELSE requests' = requests /\ dropped' = TRUE
    /\ pc' = "wait"
    /\ UNCHANGED <<domain, default_site, row_limit, max_export, start_row,
                   data, response, result, error, pages, store, svc, today>>

\* the service answers the request in flight
Respond ==
    /\ pc = "wait"
    /\ response' \in Answers(inflight)
    /\ pc' = "resp"
    /\ UNCHANGED <<domain, default_site, row_limit, max_export, start_row,
                   data, inflight, result, error, requests, pages, dropped,
                   store, svc, today>>

\* the rest of the loop body, on the response
Receive ==
    /\ pc = "resp"
    /\ IF Fails(response)
       THEN /\ error' = (IF response.kind = "error" THEN "RemoteServiceError"
                         ELSE "KeyError")
            /\ pc' = "raised"
            /\ UNCHANGED <<start_row, data, pages, result>>
       ELSE /\ start_row' = Advance(start_row, response.rows, row_limit)
            /\ data' = Extend(data, response.rows)
            /\ pages' = (IF dropped THEN pages
                         ELSE Append(pages, response.rows))
            /\ IF CapExceeded(start_row', max_export)
               THEN /\ result' = [returned |-> TRUE, rows |-> data']
                    /\ pc' = "done"
               ELSE /\ result' = result
                    /\ pc' = "loop"
            /\ error' = error
    /\ response' = NoResponse
    /\ inflight' = NoRequest
    /\ UNCHANGED <<domain, default_site, row_limit, max_export, requests,
                   dropped, store, svc, today>>

\* the loop condition fails: return data
Return ==
    /\ pc = "loop"
    /\ ~LoopCond
    /\ result' = [returned |-> TRUE, rows |-> data]
    /\ pc' = "done"
    /\ UNCHANGED <<domain, default_site, row_limit, max_export, start_row,
                   data, inflight, response, error, requests, pages, dropped,
                   store, svc, today>>

\* midnight passes; the date is read only when a request is built, so it is
\* enough to let it pass between two passes of the loop
Tick ==
    /\ pc = "loop"
    /\ today < LastDay
    /\ today' = today + 1
    /\ UNCHANGED <<domain, default_site, pc, row_limit, max_export, start_row,
                   data, inflight, response, result, error, requests, pages,
                   dropped, store, svc>>

----------------------------------------------------------------------------
(* Specifications *)

InitCommon ==
    /\ row_limit = 1
    /\ max_export = None
    /\ start_row = 0
    /\ data = <<>>
    /\ inflight = NoRequest
    /\ response = NoResponse
    /\ result = NoResult
    /\ error = ""
    /\ requests = <<>>
    /\ pages = <<>>
    /\ dropped = FALSE
    /\ today = FirstDay

\* an exporter constructed on one of the sites, before the export is called
Init ==
    /\ domain \in SiteDomains
    /\ default_site = format_domain(domain)
    /\ pc = "idle"
    /\ store \in Stores
    /\ svc \in {"exact", "any"}
    /\ InitCommon

Next == Call \/ Query \/ Respond \/ Receive \/ Return \/ Tick

Spec == Init /\ [][Next]_vars

\* the program runs on and the service answers every request
FairSpec ==
    Spec /\ WF_vars(Call) /\ WF_vars(Query) /\ WF_vars(Respond)
         /\ WF_vars(Receive) /\ WF_vars(Return)

\* the constructor alone, on every domain string of the input set
InitFormat ==
    /\ domain \in Words(MaxChunks)
    /\ default_site = <<>>
    /\ pc = "new"
    /\ store = <<>>
    /\ svc = "exact"
    /\ InitCommon

NextFormat == Construct

SpecFormat == InitFormat /\ [][NextFormat]_vars

----------------------------------------------------------------------------
(* Helpers of the properties *)

\* the rows of the first n pages, one after the other
RECURSIVE Concat(_, _)
Concat(ps, n) == IF n = 0 THEN <<>> ELSE Concat(ps, n - 1) \o ps[n]

\* the number of rows of the first n pages
RECURSIVE SumLens(_, _)
SumLens(ps, n) == IF n = 0 THEN 0 ELSE SumLens(ps, n - 1) + Len(ps[n])

InExport == pc \in {"loop", "wait", "resp", "done", "raised"}

\* the histories hold every request issued so far
Recorded == ~dropped

Aligned == start_row = 0 \/ start_row % row_limit = 0

----------------------------------------------------------------------------
(* C1: when get_search_analytics_all returns, the returned list is the      *)
(* concatenation, in request order, of the rows of every page response     *)
(* received: every request was answered by a page that is in the list,     *)
(* nothing dropped, duplicated or deduplicated.                            *)
C1_ReturnedIsConcatenation ==
    (pc = "done" /\ Recorded) =>
        /\ result.returned
        /\ Len(pages) = Len(requests)
        /\ result.rows = Concat(pages, Len(pages))

\* an export over three pages whose rows repeat has returned
C1_Witness ==
    /\ pc = "done"
    /\ Recorded
    /\ Len(pages) >= 3
    /\ \E i, j \in 1..Len(result.rows) : i # j /\ result.rows[i] = result.rows[j]
    /\ \E i, j \in 1..Len(result.rows) : result.rows[i] # result.rows[j]

----------------------------------------------------------------------------
(* C10: the startRow of every page request equals the number of rows of    *)
(* all earlier page responses, which is the length of the accumulator at   *)
(* the moment the request is issued: the first request asks for row 0,     *)
(* start_row advances by the rows received and never decreases.            *)
C10_StartRowIsRowsReceived ==
    InExport =>
        /\ \A i \in 1..Len(requests) :
              /\ i - 1 <= Len(pages)
              /\ requests[i].startRow = SumLens(pages, i - 1)
        /\ \A i, j \in 1..Len(requests) :
              i < j => requests[i].startRow <= requests[j].startRow
        /\ requests # <<>> => requests[1].startRow = 0
        /\ pc = "wait" =>
              /\ inflight.startRow = Len(data)
              /\ inflight.startRow = start_row
              /\ Recorded =>
                    /\ inflight = requests[Len(requests)]
                    /\ Len(data) = SumLens(pages, Len(pages))

\* a third request is in flight after a full page and an empty one, with a
\* page size of two
C10_Witness ==
    /\ pc = "wait"
    /\ row_limit = 2
    /\ Len(requests) = 3
    /\ Len(pages[1]) = 2
    /\ Len(pages[2]) = 0
    /\ requests[3].startRow = 2
    /\ inflight = requests[3]

----------------------------------------------------------------------------
(* C9: a page request is issued only while start_row is 0 or a multiple of *)
(* row_limit; once start_row is a non-zero non-multiple the loop returns   *)
(* the accumulator without another request, whatever the service still     *)
(* holds; and from the loop test with start_row a multiple of row_limit    *)
(* the export goes on with another request, it does not return.            *)
C9_ContinueIffAligned ==
    [][ /\ (pc' = "wait" \/ requests' # requests) =>
              /\ pc = "loop" /\ Aligned
              /\ inflight'.startRow = start_row
              /\ Recorded' => requests' = Append(requests, inflight')
        /\ (pc = "loop" /\ ~Aligned) =>
              /\ requests' = requests
              /\ pc' \in {"loop", "done"}
              /\ pc' = "done" => result' = [returned |-> TRUE, rows |-> data]
        /\ (pc = "loop" /\ Aligned /\ pc' # "loop") =>
              /\ pc' = "wait"
              /\ inflight'.startRow = start_row
        /\ (pc = "resp" /\ pc' = "done") =>
              Truthy(max_export) /\ start_row' > max_export
      ]_vars

\* the export returned after a short page although the service holds more
C9_Witness ==
    /\ pc = "done"
    /\ max_export = None
    /\ start_row % row_limit # 0
    /\ start_row < Len(store)
    /\ Len(requests) = 2
    /\ result.rows = data

----------------------------------------------------------------------------
(* C3: with no max_export, after k full pages of row_limit rows and one    *)
(* partial page of r rows (0 < r < row_limit), k + 1 requests were issued, *)
(* at start rows 0, L, ..., k*L; start_row is N = k*L + r, not a multiple  *)
(* of row_limit, so the loop issues no further request and returns the N   *)
(* rows.                                                                   *)
FullThenPartial ==
    /\ pages # <<>>
    /\ \A j \in 1..(Len(pages) - 1) : Len(pages[j]) = row_limit
    /\ Len(pages[Len(pages)]) > 0
    /\ Len(pages[Len(pages)]) < row_limit

C3_PartialPageEndsExport ==
    (InExport /\ Recorded /\ max_export = None /\ FullThenPartial) =>
        LET k == Len(pages) - 1
            n == k * row_limit + Len(pages[Len(pages)])
        IN  /\ pc \in {"loop", "done"}
            /\ Len(requests) = k + 1
            /\ \A i \in 1..(k + 1) : requests[i].startRow = (i - 1) * row_limit
            /\ start_row = n
            /\ start_row % row_limit # 0
            /\ Len(data) = n
            /\ pc = "loop" => (~ENABLED Query /\ ENABLED Return)
            /\ pc = "done" => (result.returned /\ Len(result.rows) = n)

\* page size 2, pages of 2, 2 and 1 rows: 3 requests, 5 rows
C3_Witness ==
    /\ pc = "done"
    /\ max_export = None
    /\ row_limit = 2
    /\ Len(pages) = 3
    /\ Len(pages[1]) = 2 /\ Len(pages[2]) = 2 /\ Len(pages[3]) = 1
    /\ Len(requests) = 3
    /\ requests[1].startRow = 0 /\ requests[2].startRow = 2
    /\ requests[3].startRow = 4
    /\ start_row = 5
    /\ Len(result.rows) = 5

----------------------------------------------------------------------------
(* C4: with a positive max_export M and a service that has returned only   *)
(* full pages of L rows, the export is still running while fewer than      *)
(* floor(M / L) + 1 pages were received, and it has returned once that     *)
(* many were: floor(M / L) + 1 requests, that many times L rows, more than *)
(* M and at most M + L.                                                    *)
AllFull == \A j \in 1..Len(pages) : Len(pages[j]) = row_limit

----------------------------------------------------------------------------
(* C7: when a page request fails in the service, or its response has no    *)
(* 'rows' field, the export ends there with the error raised to the        *)
(* caller: the request is not issued again, no later request is issued and *)
(* nothing is returned, the rows of earlier pages included.                *)
C7_FailurePropagates ==
    [][ /\ (pc = "resp" /\ response.kind \in {"error", "norows"}) =>
              /\ pc' = "raised"
              /\ error' = (IF response.kind = "error"
                           THEN "RemoteServiceError" ELSE "KeyError")
              /\ requests' = requests
              /\ result' = NoResult
              /\ inflight' = NoRequest
        /\ pc' = "raised" =>
              /\ pc = "resp" /\ response.kind \in {"error", "norows"}
              /\ ~result'.returned
        /\ pc = "raised" =>
              (pc' = "raised" /\ requests' = requests /\ inflight' = inflight)
      ]_vars

\* the second page had no 'rows' field: the export raised, and the rows of
\* the first page were not returned
C7_Witness ==
    /\ pc = "raised"
    /\ error = "KeyError"
    /\ Len(requests) = 2
    /\ Len(pages) = 1
    /\ data # <<>>
    /\ result = NoResult

----------------------------------------------------------------------------
(* C2: on a service that holds N rows and answers a request at offset      *)
(* start_row with the next min(row_limit, N - start_row) rows (an empty    *)
(* rows list from N on), get_search_analytics_all eventually returns or    *)
(* raises.                                                                 *)
C2_ExportTerminates ==
    (svc = "exact" /\ pc = "loop") ~> (pc \in {"done", "raised"})

----------------------------------------------------------------------------
(* C5: whenever max_export was given (any integer >= 0, zero included) and *)
(* start_row after appending a page exceeds it, no further page request is *)
(* issued.                                                                 *)
C5_CapStopsTheLoop ==
    [][ (InExport /\ max_export # None /\ start_row > max_export)
            => (pc' # "wait" /\ requests' = requests) ]_vars

----------------------------------------------------------------------------
(* C8: all page requests of one export carry the same startDate, endDate,  *)
(* dimensions, rowLimit and dataState 'FINAL'; only startRow differs, also *)
(* when the date advances between two requests.                            *)
C8_SameWindowOnEveryPage ==
    \A i, j \in 1..Len(requests) :
        /\ requests[i].startDate = requests[j].startDate
        /\ requests[i].endDate = requests[j].endDate
        /\ requests[i].dimensions = <<"query", "page">>
        /\ requests[i].rowLimit = requests[j].rowLimit
        /\ requests[i].dataState = "FINAL"

----------------------------------------------------------------------------
(* C6: _format_domain maps an input that starts with 'http://' or          *)
(* 'https://' to 'sc-domain:' followed by the rest of the input, and any   *)
(* other input to itself, also when the prefix occurs later in it; applied *)
(* twice it gives what it gives applied once.                              *)
StartsWith(s, lit) == LitAt(s, 1, lit)

Normalized(s) ==
    IF StartsWith(s, HTTPS)
    THEN replacement \o SubSeq(s, Len(HTTPS) + 1, Len(s))
    ELSE IF StartsWith(s, HTTP)
         THEN replacement \o SubSeq(s, Len(HTTP) + 1, Len(s))
         ELSE s

C6_FormatDomainStripsLeadingPrefix ==
    pc = "idle" =>
        /\ default_site = Normalized(domain)
        /\ format_domain(default_site) = default_site

====
